---- MODULE Spec2Model ----
(***************************************************************************)
(* Model of src/oneGraphClient.ts: the wrappers around the generated       *)
(* OneGraph client (queries and mutations that return {data, errors}),     *)
(* the raw schema fetch, and friendlyEventName.                            *)
(*                                                                         *)
(* JavaScript values are encoded as records tagged by a field t, so that   *)
(* optional chaining, truthiness and "|| default" are computed the way     *)
(* the code computes them.                                                 *)
(***************************************************************************)
EXTENDS Integers, Sequences, FiniteSets, TLC

\* ---------------------------------------------------------------- bounds
MaxEvents == 2
MaxStack == 4
NumNodes == 2

\* ------------------------------------------------------ program constants
ONEDASH_APP_ID == "0b066ba6-ed39-4db8-a497-ba0be34d5b2a"
FalsyEventCount == 1
FallbackFirst == 1000
BatchEventCount == 1000

\* ------------------------------------------------------------ input sets
SessionIds == <<"s1", "s2">>
Sessions == {SessionIds[i] : i \in 1..Len(SessionIds)}
Sites == {"site1"}
Tokens == {"tok"}
Docs == {"doc1"}
EventIds == 1..MaxEvents

\* ------------------------------------------------------ JavaScript values
Undefined == [t |-> "undefined"]
Null == [t |-> "null"]
Str(s) == [t |-> "string", v |-> s]
Num(n) == [t |-> "number", v |-> n]
Bool(b) == [t |-> "boolean", v |-> b]
Arr(s) == [t |-> "array", items |-> s]
Obj(f) == [t |-> "object", f |-> f]

\* ToBoolean: undefined, null, 0, "" and false are falsy; objects and
\* arrays (the empty array included) are truthy.
Truthy(v) ==
  CASE v.t \in {"undefined", "null"} -> FALSE
    [] v.t = "number" -> v.v # 0
    [] v.t = "string" -> v.v # ""
    [] v.t = "boolean" -> v.v
    [] OTHER -> TRUE

\* a || b
Or(a, b) == IF Truthy(a) THEN a ELSE b

\* v?.k  (also v.k when v is known to be an object)
Get(v, k) ==
  IF v.t = "object" /\ k \in DOMAIN v.f THEN v.f[k] ELSE Undefined

\* v?.p1?.p2?. ... ?.pn
RECURSIVE Path(_, _)
Path(v, p) == IF p = <<>> THEN v ELSE Path(Get(v, Head(p)), Tail(p))

Return(v) == [kind |-> "return", value |-> v]
Throw(e) == [kind |-> "throw", value |-> Str(e)]

Min(a, b) == IF a < b THEN a ELSE b
Max(a, b) == IF a < b THEN b ELSE a

RECURSIVE SetToSeq(_)
SetToSeq(S) ==
  IF S = {} THEN <<>>
  ELSE LET m == CHOOSE x \in S : \A y \in S : x <= y
       IN <<m>> \o SetToSeq(S \ {m})

SeqToSet(s) == {s[i] : i \in 1..Len(s)}

Without(q, S) == SelectSeq(q, LAMBDA e : e \notin S)

\* ------------------------------------------------------------- variables
VARIABLES
  server,    \* upstream OneGraph state
  lastOp,    \* name of the exported function that ran last ("produce" once
             \* the upstream has moved on by itself since)
  args,      \* its arguments, and what it started from where a claim asks
  calls,     \* the GeneratedClient calls it issued, in order
  resps,     \* the {data, errors} responses it got, in order
  ret,       \* how it completed: Return(value) or Throw(error)
  logs,      \* lines it wrote to internalConsole, in order
  acked,     \* per session, ids acknowledged without errors while queued
  heap,      \* friendlyEventName: the event objects
  dpc,       \* friendlyEventName: "idle", "running" or "done"
  cur,       \* friendlyEventName: the event of the innermost call
  depth,     \* friendlyEventName: number of nested calls
  dret       \* friendlyEventName: how the outermost call completed

vars == <<server, lastOp, args, calls, resps, ret, logs, acked,
          heap, dpc, cur, depth, dret>>
clientVars == <<lastOp, args, calls, resps, ret, logs>>
describeVars == <<heap, dpc, cur, depth, dret>>
channelVars == <<server, lastOp, args, calls, resps, ret, logs, acked>>

\* ------------------------------------------- upstream (GeneratedClient)
\* Transport outcome of one call: "ok" (data, no errors), "fail" (errors,
\* null data) or "partial" (data and errors).  took is the number of ids of
\* a failed acknowledgment, counted from the front, that took effect all
\* the same.
Transports ==
  {[outcome |-> o, took |-> 0] : o \in {"ok", "partial"}}
    \cup {[outcome |-> "fail", took |-> k] : k \in 0..MaxEvents}
PlainTransports == {tr \in Transports : tr.took = 0}

TransportErrors == Arr(<<Str("upstream error")>>)

Call(op, variables, ctx) == [op |-> op, variables |-> variables, ctx |-> ctx]
SiteCtx(siteId) == Obj([siteId |-> Str(siteId)])

Take(q, n) == SubSeq(q, 1, Min(Len(q), Max(n, 0)))

EventObj(i) == Obj([id |-> Num(i)])
EventObjs(q) == [i \in 1..Len(q) |-> EventObj(q[i])]
EventObjIds(a) == {a.items[i].f.id.v : i \in 1..Len(a.items)}

Known(srv, sid) == sid \in Sessions /\ srv.status[sid] # "NONE"

MiniSession(srv, sid) ==
  Obj([id |-> Str(sid), status |-> Str(srv.status[sid])])

OneGraph(field, v) == Obj([oneGraph |-> Obj((field :> v))])

\* data of a call that the upstream accepted, computed on the state after
\* the call's effect
Data(srv, c) ==
  LET v == c.variables IN
  CASE c.op = "fetchCLISessionQuery" ->
         OneGraph("netlifyCliSession",
           IF Known(srv, v.sessionId)
           THEN Obj([id |-> Str(v.sessionId),
                     status |-> Str(srv.status[v.sessionId]),
                     events |-> Arr(EventObjs(Take(srv.queue[v.sessionId], v.first)))])
           ELSE Null)
    [] c.op = "executeAckCLISessionEventMutation" ->
         OneGraph("ackNetlifyCliEvents",
           Obj([eventIds |-> Arr(v.eventIds)]))
    [] c.op = "executeCreateCLISessionMutation" ->
         OneGraph("createNetlifyCliSession",
           Obj([session |-> Obj([id |-> Str(srv.newest), name |-> Str(v.name),
                                 metadata |-> Str(v.metadata)])]))
    [] c.op = "executeUpdateCLISessionMetadataMutation" ->
         OneGraph("updateNetlifyCliSession",
           Obj([session |-> Obj([id |-> Str(v.sessionId),
                                 metadata |-> Str(v.metadata)])]))
    [] c.op \in {"executeMarkCLISessionActiveHeartbeat",
                 "executeMarkCLISessionInactive"} ->
         OneGraph("updateNetlifyCliSession",
           Obj([session |-> MiniSession(srv, v.id)]))
    [] c.op = "fetchPersistedQueryQuery" ->
         OneGraph("persistedQuery",
           IF v.id \in Docs THEN Obj([id |-> Str(v.id)]) ELSE Null)
    [] c.op = "executeCreatePersistedQueryMutation" ->
         OneGraph("createPersistedQuery",
           Obj([persistedQuery |-> Obj([query |-> Str(v.query),
                                        description |-> Str(v.description)])]))
    [] c.op = "fetchAppSchemaQuery" ->
         OneGraph("app",
           IF v.appId.t = "string" /\ v.appId.v \in srv.apps
           THEN Obj([graphQLSchema |->
                  IF v.appId.v \in srv.schemas
                  THEN Obj([appId |-> v.appId, services |-> Arr(<<Str("ONEGRAPH")>>)])
                  ELSE Null])
           ELSE Null)
    [] c.op = "executeUpsertAppForSiteMutation" ->
         OneGraph("upsertAppForNetlifySite",
           Obj([app |-> Obj([id |-> Str(v.siteId)])]))
    [] c.op = "executeCreateNewSchemaMutation" ->
         OneGraph("createGraphQLSchema",
           Obj([graphqlSchema |-> Obj([appId |-> Str(v.input.appId),
                                       services |-> Arr(v.input.enabledServices)])]))

\* calls the upstream refuses whatever the transport does
Refused(srv, c) ==
  LET v == c.variables IN
  CASE c.op \in {"executeAckCLISessionEventMutation",
                 "executeUpdateCLISessionMetadataMutation"} -> ~Known(srv, v.sessionId)
    [] c.op \in {"executeMarkCLISessionActiveHeartbeat",
                 "executeMarkCLISessionInactive"} -> ~Known(srv, v.id)
    [] c.op = "executeCreateCLISessionMutation" ->
         \A s \in Sessions : srv.status[s] # "NONE"
    [] OTHER -> FALSE

\* upstream state after an accepted call
Effect(srv, c) ==
  LET v == c.variables IN
  CASE c.op = "executeAckCLISessionEventMutation" ->
         [srv EXCEPT !.queue[v.sessionId] = Without(@, SeqToSet(v.eventIds))]
    [] c.op = "executeCreateCLISessionMutation" ->
         LET i == CHOOSE x \in 1..Len(SessionIds) :
                    /\ srv.status[SessionIds[x]] = "NONE"
                    /\ \A y \in 1..(x - 1) : srv.status[SessionIds[y]] # "NONE"
         IN [srv EXCEPT !.status[SessionIds[i]] = "ACTIVE", !.newest = SessionIds[i]]
    [] c.op = "executeMarkCLISessionActiveHeartbeat" ->
         [srv EXCEPT !.status[v.id] = "ACTIVE"]
    [] c.op = "executeMarkCLISessionInactive" ->
         [srv EXCEPT !.status[v.id] = "INACTIVE"]
    [] c.op = "executeUpsertAppForSiteMutation" ->
         [srv EXCEPT !.apps = @ \cup {v.siteId}]
    [] c.op = "executeCreateNewSchemaMutation" ->
         [srv EXCEPT !.schemas = @ \cup ({v.input.appId} \cap srv.apps)]
    [] OTHER -> srv

\* upstream state after a call whose transport failed
FailedEffect(srv, c, tr) ==
  IF c.op = "executeAckCLISessionEventMutation" /\ Known(srv, c.variables.sessionId)
  THEN [srv EXCEPT !.queue[c.variables.sessionId] =
          Without(@, SeqToSet(Take(c.variables.eventIds, tr.took)))]
  ELSE srv

\* one round trip: the response and the upstream state after it
Execute(srv, c, tr) ==
  IF tr.outcome = "fail" \/ Refused(srv, c)
  THEN [resp |-> Obj([data |-> Null, errors |-> TransportErrors]),
        srv |-> IF Refused(srv, c) THEN srv ELSE FailedEffect(srv, c, tr)]
  ELSE LET after == Effect(srv, c) IN
       [resp |-> IF tr.outcome = "partial"
                 THEN Obj([data |-> Data(after, c), errors |-> TransportErrors])
                 ELSE Obj([data |-> Data(after, c)]),
        srv |-> after]

Done(cs, rs, r, srv, lg) ==
  [calls |-> cs, resps |-> rs, ret |-> r, srv |-> srv, logs |-> lg]

\* ------------------------------------------------------- raw schema fetch
\* What the GET of the schema url can do: the connection fails, reading the
\* body fails, the body is not JSON, or the body parses to a value.
Introspection == Obj([__schema |-> Obj([types |-> Arr(<<>>)])])
HttpOutcomes ==
  {[kind |-> k, body |-> Undefined] : k \in {"unreachable", "textFails", "notJson"}}
    \cup {[kind |-> "json", body |-> b] :
            b \in {Obj([data |-> Introspection]),
                   Obj([errors |-> TransportErrors]),
                   Null}}

RECURSIVE Join(_, _)
Join(s, sep) ==
  IF s = <<>> THEN <<>>
  ELSE IF Len(s) = 1 THEN s
  ELSE <<Head(s), sep>> \o Join(Tail(s), sep)

SchemaUrl(appId, enabledServices) ==
  <<"https://serve.onegraph.com/schema?app_id=", appId, "&services=">>
    \o Join(enabledServices, ",")

fetchOneGraphSchemaJson(srv, appId, enabledServices, net) ==
  LET c == Call("GET", [url |-> SchemaUrl(appId, enabledServices)], Undefined) IN
  IF net.kind = "json"
  THEN Done(<<c>>, <<>>, Return(net.body), srv, <<>>)
  ELSE Done(<<c>>, <<>>, Return(Undefined), srv, <<"Error fetching schema">>)

\* graphql's buildClientSchema rejects anything that is not an
\* introspection result
buildClientSchema(introspection) ==
  IF Truthy(Get(introspection, "__schema"))
  THEN Return(Obj([schema |-> Get(introspection, "__schema")]))
  ELSE Throw("Error")

fetchOneGraphSchema(srv, appId, enabledServices, net) ==
  LET j == fetchOneGraphSchemaJson(srv, appId, enabledServices, net)
      result == j.ret.value
  IN IF result.t \in {"undefined", "null"}
     THEN Done(j.calls, j.resps, Throw("TypeError"), j.srv, j.logs)
     ELSE Done(j.calls, j.resps, buildClientSchema(Get(result, "data")), j.srv, j.logs)

\* ------------------------------------------------- wrappers (one call each)
fetchPersistedQuery(srv, authToken, appId, docId, tr) ==
  LET c == Call("fetchPersistedQueryQuery",
                [nfToken |-> authToken, appId |-> appId, id |-> docId],
                SiteCtx(ONEDASH_APP_ID))
      x == Execute(srv, c, tr)
  IN Done(<<c>>, <<x.resp>>,
          Return(Path(x.resp, <<"data", "oneGraph", "persistedQuery">>)),
          x.srv, <<>>)

\* fetchCliSession as it would be if fetching also took the returned events
\* off the queue
fetchCliSession_dequeues(srv, options, tr) ==
  LET desiredEventCount == Or(options.desiredEventCount, Num(FalsyEventCount))
      c == Call("fetchCLISessionQuery",
                [nfToken |-> options.authToken,
                 sessionId |-> options.sessionId,
                 first |-> Or(desiredEventCount, Num(FallbackFirst)).v],
                SiteCtx(options.appId))
      x == Execute(srv, c, tr)
      session == Or(Path(x.resp, <<"data", "oneGraph", "netlifyCliSession">>),
                    Arr(<<>>))
      c2 == Call("executeAckCLISessionEventMutation",
                 [nfToken |-> options.authToken,
                  sessionId |-> options.sessionId,
                  eventIds |-> SetToSeq(EventObjIds(Or(Get(session, "events"), Arr(<<>>))))],
                 SiteCtx(options.appId))
      x2 == Execute(x.srv, c2, tr)
  IN Done(<<c, c2>>, <<x.resp, x2.resp>>,
          Return(Obj([session |-> session, errors |-> Get(x.resp, "errors")])),
          x2.srv, <<>>)

fetchCliSession(srv, options, tr) ==
  LET desiredEventCount == Or(options.desiredEventCount, Num(FalsyEventCount))
      c == Call("fetchCLISessionQuery",
                [nfToken |-> options.authToken,
                 sessionId |-> options.sessionId,
                 first |-> Or(desiredEventCount, Num(FallbackFirst)).v],
                SiteCtx(options.appId))
      x == Execute(srv, c, tr)
      session == Or(Path(x.resp, <<"data", "oneGraph", "netlifyCliSession">>),
                    Arr(<<>>))
  IN Done(<<c>>, <<x.resp>>,
          Return(Obj([session |-> session, errors |-> Get(x.resp, "errors")])),
          x.srv, <<>>)

\* fetchCliSessionEvents as it would be without the check of next.errors
fetchCliSessionEvents_ignoresErrors(srv, options, tr) ==
  LET n == fetchCliSession(srv,
             [appId |-> options.appId, authToken |-> options.authToken,
              sessionId |-> options.sessionId,
              desiredEventCount |-> Num(BatchEventCount)], tr)
      next == n.ret.value
      events == Or(Get(Get(next, "session"), "events"), Arr(<<>>))
  IN Done(n.calls, n.resps, Return(Obj([events |-> events])), n.srv, n.logs)

fetchCliSessionEvents(srv, options, tr) ==
  LET n == fetchCliSession(srv,
             [appId |-> options.appId, authToken |-> options.authToken,
              sessionId |-> options.sessionId,
              desiredEventCount |-> Num(BatchEventCount)], tr)
      next == n.ret.value
      events == Or(Get(Get(next, "session"), "events"), Arr(<<>>))
  IN IF Truthy(Get(next, "errors"))
     THEN Done(n.calls, n.resps, Return(next), n.srv, n.logs)
     ELSE Done(n.calls, n.resps, Return(Obj([events |-> events])), n.srv, n.logs)

createCLISession(srv, netlifyToken, appId, name, metadata, tr) ==
  LET c == Call("executeCreateCLISessionMutation",
                [nfToken |-> netlifyToken, appId |-> appId,
                 name |-> name, metadata |-> metadata],
                SiteCtx(appId))
      x == Execute(srv, c, tr)
  IN Done(<<c>>, <<x.resp>>,
          Return(Path(x.resp, <<"data", "oneGraph", "createNetlifyCliSession", "session">>)),
          x.srv, <<>>)

updateCLISessionMetadata(srv, netlifyToken, appId, sessionId, metadata, tr) ==
  LET c == Call("executeUpdateCLISessionMetadataMutation",
                [nfToken |-> netlifyToken, sessionId |-> sessionId,
                 metadata |-> metadata],
                SiteCtx(appId))
      x == Execute(srv, c, tr)
  IN Done(<<c>>, <<x.resp>>,
          Return(Path(x.resp, <<"data", "oneGraph", "updateNetlifyCliSession", "session">>)),
          x.srv, <<>>)

\* ackCLISessionEvents as it would be if it sent no event ids
ackCLISessionEvents_sendsNoIds(srv, input, tr) ==
  LET c == Call("executeAckCLISessionEventMutation",
                [nfToken |-> input.authToken, sessionId |-> input.sessionId,
                 eventIds |-> <<>>],
                SiteCtx(input.appId))
      x == Execute(srv, c, tr)
  IN Done(<<c>>, <<x.resp>>,
          Return(Path(x.resp, <<"data", "oneGraph", "ackNetlifyCliEvents">>)),
          x.srv, <<>>)

ackCLISessionEvents(srv, input, tr) ==
  LET c == Call("executeAckCLISessionEventMutation",
                [nfToken |-> input.authToken, sessionId |-> input.sessionId,
                 eventIds |-> input.eventIds],
                SiteCtx(input.appId))
      x == Execute(srv, c, tr)
  IN Done(<<c>>, <<x.resp>>,
          Return(Path(x.resp, <<"data", "oneGraph", "ackNetlifyCliEvents">>)),
          x.srv, <<>>)

createPersistedQuery(srv, netlifyToken, input, tr) ==
  LET c == Call("executeCreatePersistedQueryMutation",
                [nfToken |-> netlifyToken, appId |-> input.appId,
                 query |-> input.document, tags |-> input.tags,
                 description |-> input.description],
                SiteCtx(input.appId))
      x == Execute(srv, c, tr)
  IN Done(<<c>>, <<x.resp>>,
          Return(Path(x.resp, <<"data", "oneGraph", "createPersistedQuery", "persistedQuery">>)),
          x.srv, <<>>)

fetchAppSchema(srv, authToken, siteId, tr) ==
  LET c == Call("fetchAppSchemaQuery",
                [nfToken |-> authToken, appId |-> Str(siteId)],
                SiteCtx(siteId))
      x == Execute(srv, c, tr)
  IN Done(<<c>>, <<x.resp>>,
          Return(Path(x.resp, <<"data", "oneGraph", "app", "graphQLSchema">>)),
          x.srv, <<>>)

upsertAppForSite(srv, authToken, siteId, tr) ==
  LET c == Call("executeUpsertAppForSiteMutation",
                [nfToken |-> authToken, siteId |-> siteId],
                SiteCtx(ONEDASH_APP_ID))
      x == Execute(srv, c, tr)
  IN Done(<<c>>, <<x.resp>>,
          Return(Path(x.resp, <<"data", "oneGraph", "upsertAppForNetlifySite", "app">>)),
          x.srv, <<>>)

createNewAppSchema(srv, nfToken, input, tr) ==
  LET c == Call("executeCreateNewSchemaMutation",
                [nfToken |-> nfToken, input |-> input],
                SiteCtx(input.appId))
      x == Execute(srv, c, tr)
  IN Done(<<c>>, <<x.resp>>,
          Return(Path(x.resp, <<"data", "oneGraph", "createGraphQLSchema", "graphqlSchema">>)),
          x.srv, <<>>)

DefaultSchemaInput(siteId) ==
  [appId |-> siteId, enabledServices |-> <<Str("ONEGRAPH")>>,
   setAsDefaultForApp |-> TRUE]

\* trs: the transport outcomes of the first, second and third call
ensureAppForSite(srv, authToken, siteId, trs) ==
  LET c1 == Call("executeUpsertAppForSiteMutation",
                 [nfToken |-> authToken, siteId |-> siteId], Undefined)
      x1 == Execute(srv, c1, trs[1])
      appId == Path(x1.resp, <<"data", "oneGraph", "upsertAppForNetlifySite", "app", "id">>)
      c2 == Call("fetchAppSchemaQuery",
                 [nfToken |-> authToken, appId |-> appId], Undefined)
      x2 == Execute(x1.srv, c2, trs[2])
      schema == x2.resp
      c3 == Call("executeCreateNewSchemaMutation",
                 [nfToken |-> authToken, input |-> DefaultSchemaInput(siteId)],
                 Undefined)
      x3 == Execute(x2.srv, c3, trs[3])
  IN IF ~Truthy(schema)
     THEN Done(<<c1, c2, c3>>, <<x1.resp, x2.resp, x3.resp>>, Return(Undefined),
               x3.srv, <<"Creating new empty default GraphQL schema for site....">>)
     ELSE Done(<<c1, c2>>, <<x1.resp, x2.resp>>, Return(Undefined), x2.srv, <<>>)

fetchEnabledServices(srv, authToken, appId, tr) ==
  LET c == Call("fetchAppSchemaQuery",
                [nfToken |-> authToken, appId |-> Str(appId)], Undefined)
      x == Execute(srv, c, tr)
  IN Done(<<c>>, <<x.resp>>,
          Return(Path(x.resp, <<"data", "oneGraph", "app", "graphQLSchema", "services">>)),
          x.srv, <<>>)

\* executeMarkCliSessionActiveHeartbeat as it would be if it had kept the
\* mutation of executeMarkCliSessionInactive
executeMarkCliSessionActiveHeartbeat_marksInactive(srv, authToken, appId, sessionId, tr) ==
  LET c == Call("executeMarkCLISessionInactive",
                [nfToken |-> authToken, id |-> sessionId],
                SiteCtx(appId))
      x == Execute(srv, c, tr)
      session == Path(x.resp, <<"data", "oneGraph", "updateNetlifyCliSession", "session">>)
  IN Done(<<c>>, <<x.resp>>,
          Return(Obj([errors |-> Get(x.resp, "errors"), data |-> session])),
          x.srv, <<>>)

executeMarkCliSessionActiveHeartbeat(srv, authToken, appId, sessionId, tr) ==
  LET c == Call("executeMarkCLISessionActiveHeartbeat",
                [nfToken |-> authToken, id |-> sessionId],
                SiteCtx(appId))
      x == Execute(srv, c, tr)
      session == Path(x.resp, <<"data", "oneGraph", "updateNetlifyCliSession", "session">>)
  IN Done(<<c>>, <<x.resp>>,
          Return(Obj([errors |-> Get(x.resp, "errors"), data |-> session])),
          x.srv, <<>>)

\* executeMarkCliSessionInactive as it would be if it returned the session
\* alone, the way most of the wrappers do
executeMarkCliSessionInactive_dropsErrors(srv, authToken, appId, sessionId, tr) ==
  LET c == Call("executeMarkCLISessionInactive",
                [nfToken |-> authToken, id |-> sessionId],
                SiteCtx(appId))
      x == Execute(srv, c, tr)
      session == Path(x.resp, <<"data", "oneGraph", "updateNetlifyCliSession", "session">>)
  IN Done(<<c>>, <<x.resp>>, Return(Obj([data |-> session])), x.srv, <<>>)

executeMarkCliSessionInactive(srv, authToken, appId, sessionId, tr) ==
  LET c == Call("executeMarkCLISessionInactive",
                [nfToken |-> authToken, id |-> sessionId],
                SiteCtx(appId))
      x == Execute(srv, c, tr)
      session == Path(x.resp, <<"data", "oneGraph", "updateNetlifyCliSession", "session">>)
  IN Done(<<c>>, <<x.resp>>,
          Return(Obj([errors |-> Get(x.resp, "errors"), data |-> session])),
          x.srv, <<>>)

\* ------------------------------------------------------ friendlyEventName
TestEvent == "OneGraphNetlifyCliSessionTestEvent"
GenerateHandlerEvent == "OneGraphNetlifyCliSessionGenerateHandlerEvent"
PersistedLibraryUpdatedEvent == "OneGraphNetlifyCliSessionPersistedLibraryUpdatedEvent"

\* an event object: its __typename and a reference to its payload; the
\* reference 0 is a payload that is undefined or null
NoPayload == 0
Typenames ==
  {Str(TestEvent), Str(GenerateHandlerEvent), Str(PersistedLibraryUpdatedEvent),
   Str("FooEvent"), Undefined}
EventObjects == [__typename : Typenames, payload : 0..NumNodes]
Heaps == [1..NumNodes -> EventObjects]

\* a template string, kept as its parts
Template(parts) == [t |-> "string", parts |-> parts]
Interpolate(v) == IF v.t = "string" THEN v.v ELSE v.t

\* one activation of friendlyEventName on the object e refers to: it
\* completes, or calls itself on the payload
friendlyEventName(h, e) ==
  IF e = NoPayload
  THEN Throw("TypeError")
  ELSE LET __typename == h[e].__typename IN
       CASE __typename = Str(TestEvent) ->
              [kind |-> "call", value |-> h[e].payload]
         [] __typename = Str(GenerateHandlerEvent) ->
              Return(Template(<<"Generate handler as Netlify function ">>))
         [] __typename = Str(PersistedLibraryUpdatedEvent) ->
              Return(Template(<<"Sync Netlify Graph operations library">>))
         [] OTHER ->
              Return(Template(<<"Unrecognized event (", Interpolate(__typename), ")">>))

\* ------------------------------------------------------------ initial state
NoResult == Return(Undefined)

InitServer(a, sc) ==
  [queue |-> [s \in Sessions |-> <<>>],
   status |-> [s \in Sessions |-> "NONE"],
   apps |-> a, schemas |-> sc, nextId |-> 1, newest |-> ""]

InitClient ==
  /\ lastOp = "none"
  /\ args = <<>>
  /\ calls = <<>>
  /\ resps = <<>>
  /\ ret = NoResult
  /\ logs = <<>>
  /\ acked = [s \in Sessions |-> {}]

InitIdle ==
  /\ dpc = "idle"
  /\ cur = NoPayload
  /\ depth = 0
  /\ dret = NoResult

\* the session channel, for a site that is set up upstream
Init ==
  /\ server = InitServer(Sites, Sites)
  /\ InitClient
  /\ InitIdle
  /\ heap = [n \in 1..NumNodes |-> [__typename |-> Undefined, payload |-> NoPayload]]

\* apps and schemas, for sites in any state of being set up upstream
InitApp ==
  /\ \E a \in SUBSET Sites, sc \in SUBSET Sites :
       sc \subseteq a /\ server = InitServer(a, sc)
  /\ InitClient
  /\ InitIdle
  /\ heap = [n \in 1..NumNodes |-> [__typename |-> Undefined, payload |-> NoPayload]]

InitDescribe ==
  /\ server = InitServer({}, {})
  /\ InitClient
  /\ InitIdle
  /\ heap \in Heaps

\* ------------------------------------------------------------------ inputs
DesiredCounts == {Undefined, Num(-1), Num(0), Num(2)}
Names == {"cli"}
Metadatas == {"m1"}
ServiceLists == {<<>>, <<"GITHUB">>, <<"GITHUB", "STRIPE">>}
\* what a client can acknowledge on a session: ids that are on its queue,
\* and ids it has acknowledged before
AckLists(sid) ==
  {SetToSeq(S) : S \in SUBSET (SeqToSet(server.queue[sid]) \cup acked[sid])}

\* ----------------------------------------------------------------- actions
Ran(name, a, d) ==
  /\ lastOp' = name
  /\ args' = a
  /\ calls' = d.calls
  /\ resps' = d.resps
  /\ ret' = d.ret
  /\ logs' = d.logs
  /\ server' = d.srv

\* ids of the events a fetch result lets its caller see
ReturnedIds(v) ==
  EventObjIds(Or(Get(v, "events"), Arr(<<>>)))
    \cup EventObjIds(Or(Path(v, <<"session", "events">>), Arr(<<>>)))

\* the upstream puts a new event on the queue of a session
Produce ==
  /\ server.nextId <= MaxEvents
  /\ \E s \in Sessions :
       /\ Known(server, s)
       /\ server' = [server EXCEPT !.queue[s] = Append(@, server.nextId),
                                   !.nextId = @ + 1]
  /\ lastOp' = "produce"
  /\ args' = <<>>
  /\ calls' = <<>>
  /\ resps' = <<>>
  /\ ret' = NoResult
  /\ logs' = <<>>
  /\ UNCHANGED <<acked, describeVars>>

FetchOneGraphSchemaJson ==
  \E appId \in Sites, sv \in ServiceLists, net \in HttpOutcomes :
    /\ Ran("fetchOneGraphSchemaJson",
           [appId |-> appId, enabledServices |-> sv, net |-> net],
           fetchOneGraphSchemaJson(server, appId, sv, net))
    /\ UNCHANGED <<acked, describeVars>>

FetchOneGraphSchema ==
  \E appId \in Sites, sv \in ServiceLists, net \in HttpOutcomes :
    /\ Ran("fetchOneGraphSchema",
           [appId |-> appId, enabledServices |-> sv, net |-> net],
           fetchOneGraphSchema(server, appId, sv, net))
    /\ UNCHANGED <<acked, describeVars>>

FetchPersistedQuery ==
  \E tok \in Tokens, appId \in Sites, docId \in Docs \cup {"doc9"}, tr \in PlainTransports :
    /\ Ran("fetchPersistedQuery", [appId |-> appId, docId |-> docId],
           fetchPersistedQuery(server, tok, appId, docId, tr))
    /\ UNCHANGED <<acked, describeVars>>

FetchCliSession ==
  \E tok \in Tokens, appId \in Sites, sid \in Sessions, n \in DesiredCounts,
     tr \in PlainTransports :
    LET options == [appId |-> appId, authToken |-> tok, sessionId |-> sid,
                    desiredEventCount |-> n]
        d == fetchCliSession(server, options, tr)
    IN /\ Ran("fetchCliSession", options, d)
       /\ UNCHANGED <<acked, describeVars>>

FetchCliSessionEvents ==
  \E tok \in Tokens, appId \in Sites, sid \in Sessions, tr \in PlainTransports :
    LET options == [appId |-> appId, authToken |-> tok, sessionId |-> sid]
        d == fetchCliSessionEvents(server, options, tr)
    IN /\ Ran("fetchCliSessionEvents", options, d)
       /\ UNCHANGED <<acked, describeVars>>

CreateCLISession ==
  \E tok \in Tokens, appId \in Sites, name \in Names, md \in Metadatas,
     tr \in PlainTransports :
    /\ Ran("createCLISession", [appId |-> appId, name |-> name, metadata |-> md],
           createCLISession(server, tok, appId, name, md, tr))
    /\ UNCHANGED <<acked, describeVars>>

UpdateCLISessionMetadata ==
  \E tok \in Tokens, appId \in Sites, sid \in Sessions, md \in Metadatas,
     tr \in PlainTransports :
    /\ Ran("updateCLISessionMetadata",
           [appId |-> appId, sessionId |-> sid, metadata |-> md],
           updateCLISessionMetadata(server, tok, appId, sid, md, tr))
    /\ UNCHANGED <<acked, describeVars>>

AckCLISessionEvents ==
  \E tok \in Tokens, appId \in Sites, sid \in Sessions :
  \E ids \in AckLists(sid) :
  \E tr \in {x \in Transports : x.took <= Len(ids)} :
    LET input == [appId |-> appId, authToken |-> tok, sessionId |-> sid,
                  eventIds |-> ids]
        d == ackCLISessionEvents(server, input, tr)
    IN /\ Ran("ackCLISessionEvents", input, d)
       /\ acked' = IF Truthy(Get(d.resps[1], "errors"))
                   THEN acked
                   ELSE [acked EXCEPT ![sid] =
                           @ \cup (SeqToSet(ids) \cap SeqToSet(server.queue[sid]))]
       /\ UNCHANGED describeVars

CreatePersistedQuery ==
  \E tok \in Tokens, appId \in Sites, tr \in PlainTransports :
    LET input == [appId |-> appId, description |-> "d", document |-> "query Q { me }",
                  tags |-> <<"t">>]
    IN /\ Ran("createPersistedQuery", input,
              createPersistedQuery(server, tok, input, tr))
       /\ UNCHANGED <<acked, describeVars>>

FetchAppSchema ==
  \E tok \in Tokens, siteId \in Sites, tr \in PlainTransports :
    /\ Ran("fetchAppSchema", [siteId |-> siteId],
           fetchAppSchema(server, tok, siteId, tr))
    /\ UNCHANGED <<acked, describeVars>>

UpsertAppForSite ==
  \E tok \in Tokens, siteId \in Sites, tr \in PlainTransports :
    /\ Ran("upsertAppForSite", [siteId |-> siteId],
           upsertAppForSite(server, tok, siteId, tr))
    /\ UNCHANGED <<acked, describeVars>>

CreateNewAppSchema ==
  \E tok \in Tokens, siteId \in Sites, tr \in PlainTransports :
    LET input == [appId |-> siteId, enabledServices |-> <<Str("GITHUB")>>,
                  setAsDefaultForApp |-> TRUE]
    IN /\ Ran("createNewAppSchema", input,
              createNewAppSchema(server, tok, input, tr))
       /\ UNCHANGED <<acked, describeVars>>

EnsureAppForSite ==
  \E tok \in Tokens, siteId \in Sites, trs \in [1..3 -> PlainTransports] :
    /\ Ran("ensureAppForSite", [siteId |-> siteId, hadSchema |-> siteId \in server.schemas],
           ensureAppForSite(server, tok, siteId, trs))
    /\ UNCHANGED <<acked, describeVars>>

FetchEnabledServices ==
  \E tok \in Tokens, appId \in Sites, tr \in PlainTransports :
    /\ Ran("fetchEnabledServices", [appId |-> appId],
           fetchEnabledServices(server, tok, appId, tr))
    /\ UNCHANGED <<acked, describeVars>>

ExecuteMarkCliSessionActiveHeartbeat ==
  \E tok \in Tokens, appId \in Sites, sid \in Sessions, tr \in PlainTransports :
    /\ Ran("executeMarkCliSessionActiveHeartbeat",
           [appId |-> appId, sessionId |-> sid, was |-> server.status[sid]],
           executeMarkCliSessionActiveHeartbeat(server, tok, appId, sid, tr))
    /\ UNCHANGED <<acked, describeVars>>

ExecuteMarkCliSessionInactive ==
  \E tok \in Tokens, appId \in Sites, sid \in Sessions, tr \in PlainTransports :
    /\ Ran("executeMarkCliSessionInactive",
           [appId |-> appId, sessionId |-> sid, was |-> server.status[sid]],
           executeMarkCliSessionInactive(server, tok, appId, sid, tr))
    /\ UNCHANGED <<acked, describeVars>>

\* friendlyEventName is called on an event
DescribeCall ==
  /\ dpc = "idle"
  /\ \E e \in 1..NumNodes : cur' = e
  /\ depth' = 1
  /\ dpc' = "running"
  /\ UNCHANGED <<heap, dret, channelVars>>

\* the innermost activation runs: it completes the whole chain of returns,
\* or calls itself, which overflows the stack once MaxStack frames are live
DescribeStep ==
  /\ dpc = "running"
  /\ LET r == friendlyEventName(heap, cur) IN
       IF r.kind = "call"
       THEN IF depth < MaxStack
            THEN /\ cur' = r.value
                 /\ depth' = depth + 1
                 /\ UNCHANGED <<dpc, dret>>
            ELSE /\ dret' = Throw("RangeError")
                 /\ dpc' = "done"
                 /\ UNCHANGED <<cur, depth>>
       ELSE /\ dret' = r
            /\ dpc' = "done"
            /\ UNCHANGED <<cur, depth>>
  /\ UNCHANGED <<heap, channelVars>>

Next ==
  \/ Produce
  \/ FetchPersistedQuery
  \/ FetchCliSession
  \/ FetchCliSessionEvents
  \/ CreateCLISession
  \/ UpdateCLISessionMetadata
  \/ AckCLISessionEvents
  \/ CreatePersistedQuery
  \/ FetchAppSchema
  \/ UpsertAppForSite
  \/ CreateNewAppSchema
  \/ FetchEnabledServices
  \/ ExecuteMarkCliSessionActiveHeartbeat
  \/ ExecuteMarkCliSessionInactive

NextApp ==
  \/ FetchOneGraphSchemaJson
  \/ FetchOneGraphSchema
  \/ FetchAppSchema
  \/ UpsertAppForSite
  \/ CreateNewAppSchema
  \/ EnsureAppForSite
  \/ FetchEnabledServices

NextDescribe ==
  \/ DescribeCall
  \/ DescribeStep

Spec == Init /\ [][Next]_vars

SpecApp == InitApp /\ [][NextApp]_vars

SpecDescribe == InitDescribe /\ [][NextDescribe]_vars

\* ------------------------------------------------------------------ claims
Fetches == {"fetchCliSession", "fetchCliSessionEvents"}
UpstreamErrors == Get(resps[1], "errors")
Failed == Len(resps) > 0 /\ Truthy(UpstreamErrors)

\* C1: once a set of event ids has been acknowledged on a session and the
\* acknowledgment came back without errors, no later fetch on that session
\* returns any of those ids.
C1_AckedNeverRedelivered ==
  lastOp \in Fetches => ReturnedIds(ret.value) \cap acked[args.sessionId] = {}

\* a fetch that returns an event of a session some of whose events were
\* acknowledged before
C1_Witness ==
  /\ lastOp = "fetchCliSessionEvents"
  /\ ~Failed
  /\ acked[args.sessionId] # {}
  /\ ReturnedIds(ret.value) # {}

\* C2: a fetch (fetchCliSession, fetchCliSessionEvents) is read-only: it
\* leaves the upstream state, the session's event queue included, as it was,
\* so what was outstanding before it is outstanding after it.
C2_FetchIsReadOnly ==
  [][lastOp' \in Fetches => server' = server]_vars

\* a fetch has returned events, and they are still on the queue
C2_Witness ==
  /\ lastOp \in Fetches
  /\ ReturnedIds(ret.value) # {}
  /\ ReturnedIds(ret.value) \subseteq SeqToSet(server.queue[args.sessionId])

\* C3 as stated: when the upstream reports errors, fetchCliSessionEvents
\* returns them and its events are the empty sequence.
C3_EventsDefaultToEmptyOnErrors ==
  (lastOp = "fetchCliSessionEvents" /\ Failed) =>
    /\ ret.kind = "return"
    /\ Get(ret.value, "errors") = UpstreamErrors
    /\ Get(ret.value, "events") = Arr(<<>>)

\* C3 as amended: when the upstream reports errors, fetchCliSessionEvents
\* does not throw and returns the errors unmodified, with no events field at
\* all (the result is fetchCliSession's, whose session is the empty array
\* when there is no data); events is an array whenever no errors are
\* reported.
C3_ErrorsReturnedWithoutEvents ==
  lastOp = "fetchCliSessionEvents" =>
    /\ ret.kind = "return"
    /\ Failed =>
         /\ Get(ret.value, "errors") = UpstreamErrors
         /\ Get(ret.value, "events") = Undefined
         /\ Get(resps[1], "data") = Null => Get(ret.value, "session") = Arr(<<>>)
    /\ ~Failed => Get(ret.value, "events").t = "array"

\* fetchCliSessionEvents has returned upstream errors
C3_Witness ==
  /\ lastOp = "fetchCliSessionEvents"
  /\ Failed
  /\ Truthy(Get(ret.value, "errors"))

SurfacingOps ==
  {"fetchCliSession", "fetchCliSessionEvents",
   "executeMarkCliSessionActiveHeartbeat", "executeMarkCliSessionInactive"}
UnwrappingOps ==
  {"fetchPersistedQuery", "createCLISession", "updateCLISessionMetadata",
   "ackCLISessionEvents", "createPersistedQuery", "fetchAppSchema",
   "upsertAppForSite", "createNewAppSchema", "fetchEnabledServices"}

\* C4 as stated: every wrapper hands the errors array of the upstream
\* response to its caller unmodified.
C4_EveryWrapperSurfacesErrors ==
  (lastOp \in SurfacingOps \cup UnwrappingOps /\ Failed) =>
    Get(ret.value, "errors") = UpstreamErrors

\* C4 as amended: fetchCliSession, fetchCliSessionEvents,
\* executeMarkCliSessionActiveHeartbeat and executeMarkCliSessionInactive
\* hand the errors array to their caller unmodified; the other nine wrappers
\* return the unwrapped data field alone (undefined when there is no data)
\* and the errors do not reach the caller.
C4_ErrorsSurfacedByFourWrappers ==
  Failed =>
    /\ lastOp \in SurfacingOps => Get(ret.value, "errors") = UpstreamErrors
    /\ lastOp \in UnwrappingOps =>
         /\ Get(ret.value, "errors") = Undefined
         /\ Get(resps[1], "data") = Null => ret.value = Undefined

\* a deactivate whose upstream call failed has returned the errors
C4_Witness ==
  /\ lastOp = "executeMarkCliSessionInactive"
  /\ Failed
  /\ Get(ret.value, "errors") = TransportErrors

FetchFailures == {"unreachable", "textFails", "notJson"}

\* C5: a schema fetch that fails on the network or on parsing resolves to
\* undefined and logs exactly one error line, for fetchOneGraphSchemaJson
\* and for fetchOneGraphSchema.
C5_FailedSchemaFetchIsUndefined ==
  (lastOp \in {"fetchOneGraphSchemaJson", "fetchOneGraphSchema"}
     /\ args.net.kind \in FetchFailures) =>
    /\ ret = Return(Undefined)
    /\ Len(logs) = 1

\* C6: fetchCliSession called with a desiredEventCount of 0 or less is
\* rejected or sends first = 1000 upstream.
C6_NonPositiveCountBecomesDefault ==
  (lastOp = "fetchCliSession"
     /\ args.desiredEventCount.t = "number"
     /\ args.desiredEventCount.v <= 0) =>
    \/ ret.kind = "throw"
    \/ calls[1].variables.first = FallbackFirst

\* C7: the recursion of friendlyEventName into the payload of a TestEvent
\* is guarded: no chain of TestEvents, a cyclic one included, runs it until
\* the stack is exhausted.
C7_RecursionIsGuarded ==
  dpc = "done" => dret # Throw("RangeError")

RecognizedTypenames ==
  {Str(TestEvent), Str(GenerateHandlerEvent), Str(PersistedLibraryUpdatedEvent)}

\* C8: friendlyEventName returns a string for every event, a TestEvent
\* without payload included, and the label of an event of an unrecognized
\* kind contains the raw discriminant.
C8_AlwaysReturnsALabel ==
  dpc = "done" =>
    /\ dret.kind = "return"
    /\ dret.value.t = "string"
    /\ heap[cur].__typename \notin RecognizedTypenames =>
         \E i \in 1..Len(dret.value.parts) :
           dret.value.parts[i] = Interpolate(heap[cur].__typename)

ReportedStatus == Path(ret.value, <<"data", "status">>)

====
